---- MODULE Spec2Model ----
(***************************************************************************)
(* RPGenius: the application state (rpgenius/state.py), the Spotify        *)
(* service wrapper (rpgenius/services/spotify_client.py) and the handlers  *)
(* of the Tkinter main window (rpgenius/ui/app.py), as one state machine.  *)
(*                                                                         *)
(* Every handler runs to completion on Tk's single event loop, so one      *)
(* handler is one action.  A handler is written as an operator from the    *)
(* program state (a record s with one field per attribute) to the program  *)
(* state it leaves, so that a handler calling another one (authenticate    *)
(* calling _update_auth_ui, refresh_devices and _start_progress_update) is *)
(* the composition of their operators.  The replies of the Spotify Web API *)
(* are inputs of the actions.                                              *)
(*                                                                         *)
(* Strings of the source with non-ASCII letters are written without the    *)
(* accents, and the en dash of the display labels is written "-".          *)
(***************************************************************************)
EXTENDS Integers, Sequences, FiniteSets, TLC

VARIABLES
    \* AppState (state.py)
    track_uris, result_types, image_urls, device_map, username, avatar_url,
    \* SpotifyService (spotify_client.py): whether _client is set; the _config
    client, config,
    \* MainWindow (app.py)
    device_var, search_text, search_placeholder_active, search_entry_state,
    search_after_id, result_items, selected_name,
    is_playing, controls_state, current_track, progress_update_job,
    \* Tk's after-queue: pending callbacks no attribute refers to any more
    search_orphans, progress_orphans,
    \* what the last handler did: its name, the dialog it showed, the calls it
    \* made to the Spotify Web API, the position it read from the playback (-1
    \* when it read none), what it read from the Web API, the results the
    \* service's search returned to it, the value it gave the progress bar (-1
    \* when it gave none); the position of the constructor; the progress of the
    \* three-snapshot poll scenario
    op, dialog, calls, progress_read, fetches, search_results, progress_value,
    phase, pollSeq,
    \* which collaborator answers with its whole range of replies
    world

vars == <<track_uris, result_types, image_urls, device_map, username, avatar_url,
          client, config, device_var, search_text, search_placeholder_active,
          search_entry_state, search_after_id, result_items, selected_name,
          is_playing, controls_state, current_track, progress_update_job,
          search_orphans, progress_orphans, op, dialog, calls, progress_read, fetches,
          search_results, progress_value, phase, pollSeq, world>>

----------------------------------------------------------------------------
(* Bounds of the model *)

\* longest reply of the catalog search, over the four kinds together
MaxResults == 2
\* longest reply of the device listing
MaxDevices == 2
\* most after-callbacks left pending with no attribute referring to them
MaxOrphanTimers == 1

----------------------------------------------------------------------------
(* Python values *)

None == "<None>"
\* a key that the dict does not hold
Missing == "<missing>"
\* the call raised SpotifyServiceError
Fail == "<SpotifyServiceError>"

\* dict.get(key, default)
Get(v, default) == IF v = Missing THEN default ELSE v
\* bool(v) of a string or None
Truthy(v) == v # None /\ v # "" /\ v # Missing
\* a or b
Or(a, b) == IF Truthy(a) THEN a ELSE b

SeqUpTo(S, n) == UNION {[1..k -> S] : k \in 0..n}
Min(a, b) == IF a < b THEN a ELSE b

\* A text is the sequence of its characters; a run of non-blank characters is
\* written as one element.
IsSpace(c) == c = " "

RECURSIVE LStrip(_)
LStrip(t) == IF t # <<>> /\ IsSpace(Head(t)) THEN LStrip(Tail(t)) ELSE t

RECURSIVE RStrip(_)
RStrip(t) ==
    IF t # <<>> /\ IsSpace(t[Len(t)]) THEN RStrip(SubSeq(t, 1, Len(t) - 1)) ELSE t

\* str.strip()
Strip(t) == RStrip(LStrip(t))

IsBlankNoStrip(t) == t = <<>>
\* not query.strip()
IsBlank(t) == Strip(t) = <<>>

SEARCH_PLACEHOLDER ==
    <<"Que", " ", "souhaitez-vous", " ", "ecouter", " ", "ou", " ", "regarder", " ", "?">>

\* what the user can leave in the search box
Queries == {<<>>, <<" ">>, <<"q">>}

----------------------------------------------------------------------------
(* Dialogs (tkinter.messagebox) *)

NoDialog == [kind |-> "none", title |-> ""]
Warning(t) == [kind |-> "warning", title |-> t]
Error(t) == [kind |-> "error", title |-> t]
Info(t) == [kind |-> "info", title |-> t]

\* a call to the Spotify Web API: the function, the device, the argument, and
\* whether it returned (TRUE) or raised (FALSE)
Call(fn, device_id, arg, ok) == <<fn, device_id, arg, ok>>

----------------------------------------------------------------------------
(* The state as one record *)

State ==
    [track_uris |-> track_uris, result_types |-> result_types,
     image_urls |-> image_urls, device_map |-> device_map,
     username |-> username, avatar_url |-> avatar_url, client |-> client,
     device_var |-> device_var, search_text |-> search_text,
     search_placeholder_active |-> search_placeholder_active,
     search_entry_state |-> search_entry_state,
     search_after_id |-> search_after_id, result_items |-> result_items,
     selected_name |-> selected_name, is_playing |-> is_playing,
     controls_state |-> controls_state, current_track |-> current_track,
     progress_update_job |-> progress_update_job,
     search_orphans |-> search_orphans, progress_orphans |-> progress_orphans,
     dialog |-> NoDialog, calls |-> <<>>, progress_read |-> -1, fetches |-> <<>>,
     search_results |-> <<>>, progress_value |-> -1]

\* the handler's result is evaluated once
Commit(result, name) ==
    \E s \in {result} :
        /\ track_uris' = s.track_uris
        /\ result_types' = s.result_types
        /\ image_urls' = s.image_urls
        /\ device_map' = s.device_map
        /\ username' = s.username
        /\ avatar_url' = s.avatar_url
        /\ client' = s.client
        /\ device_var' = s.device_var
        /\ search_text' = s.search_text
        /\ search_placeholder_active' = s.search_placeholder_active
        /\ search_entry_state' = s.search_entry_state
        /\ search_after_id' = s.search_after_id
        /\ result_items' = s.result_items
        /\ selected_name' = s.selected_name
        /\ is_playing' = s.is_playing
        /\ controls_state' = s.controls_state
        /\ current_track' = s.current_track
        /\ progress_update_job' = s.progress_update_job
        /\ search_orphans' = s.search_orphans
        /\ progress_orphans' = s.progress_orphans
        /\ dialog' = s.dialog
        /\ calls' = s.calls
        /\ progress_read' = s.progress_read
        /\ fetches' = s.fetches
        /\ search_results' = s.search_results
        /\ progress_value' = s.progress_value
        /\ op' = name
        /\ config' = config
        /\ world' = world

----------------------------------------------------------------------------
(* Tk's after-queue.  An attribute holding an after-id is None, "live" (the  *)
(* id of a pending callback) or "stale" (the id of a callback that has run   *)
(* or was cancelled).  A pending callback whose id no attribute holds is an  *)
(* orphan: nothing can cancel it.                                            *)

\* root.after_cancel(id)
after_cancel(id) == IF id = "live" THEN "stale" ELSE id

\* the orphans once the attribute holding `id` is overwritten
Orphaned(id, orphans) ==
    IF id = "live" THEN Min(orphans + 1, MaxOrphanTimers) ELSE orphans

----------------------------------------------------------------------------
(* AppState *)

EmptyDict == [k \in {} |-> None]

\* dict[key] = value on a dict kept as a function
DictPut(d, k, v) == [x \in DOMAIN d \cup {k} |-> IF x = k THEN v ELSE d[x]]

RECURSIVE FillDict(_, _, _)
FillDict(d, entries, field) ==
    IF entries = <<>> THEN d
    ELSE FillDict(DictPut(d, Head(entries)[1], Head(entries)[field]),
                  Tail(entries), field)

clear_tracks_keeps_images(s) ==
    [s EXCEPT !.track_uris = EmptyDict, !.result_types = EmptyDict]

clear_tracks(s) ==
    [s EXCEPT !.track_uris = EmptyDict, !.result_types = EmptyDict,
              !.image_urls = EmptyDict]

\* entries: tuples <<display_name, uri, result_type, image_url>>
set_tracks(s, entries) ==
    [s EXCEPT !.track_uris = FillDict(EmptyDict, entries, 2),
              !.result_types = FillDict(EmptyDict, entries, 3),
              !.image_urls = FillDict(EmptyDict, entries, 4)]

\* An ordered dict is a sequence of <<key, value>> with distinct keys.
OKeys(d) == {d[i][1] : i \in 1..Len(d)}
OGet(d, k) ==
    IF k \in OKeys(d) THEN d[CHOOSE i \in 1..Len(d) : d[i][1] = k][2] ELSE None
OPut(d, k, v) ==
    IF k \in OKeys(d)
    THEN [i \in 1..Len(d) |-> IF d[i][1] = k THEN <<k, v>> ELSE d[i]]
    ELSE Append(d, <<k, v>>)

RECURSIVE DictOfPairs(_, _)
DictOfPairs(d, pairs) ==
    IF pairs = <<>> THEN d
    ELSE DictOfPairs(OPut(d, Head(pairs)[1], Head(pairs)[2]), Tail(pairs))

\* devices: pairs <<name, device_id>>
set_devices(s, devices) == [s EXCEPT !.device_map = DictOfPairs(<<>>, devices)]

get_device_id(s, device_name) == OGet(s.device_map, device_name)

reset_keeps_devices(s) ==
    clear_tracks([s EXCEPT !.username = None, !.avatar_url = None])

reset(s) ==
    clear_tracks([s EXCEPT !.username = None, !.avatar_url = None,
                           !.device_map = <<>>])

state_is_authenticated(s) == s.username # None

----------------------------------------------------------------------------
(* SpotifyConfig (config.py).  A credential is the sequence of its parts, the *)
(* placeholder prefix being one part.                                         *)

PLACEHOLDER_PREFIX == "VOTRE_"

startswith(value, prefix) == value # <<>> /\ Head(value) = prefix

credentials_are_configured(cfg) ==
    \A value \in {cfg.client_id, cfg.client_secret} :
        value # <<>> /\ ~startswith(value, PLACEHOLDER_PREFIX)

\* load_config: the defaults when the environment sets nothing, a client id
\* with an empty secret, and real credentials
Configs ==
    {[client_id |-> <<"VOTRE_", "CLIENT_ID">>, client_secret |-> <<"VOTRE_", "CLIENT_SECRET">>],
     [client_id |-> <<"abc">>, client_secret |-> <<>>],
     [client_id |-> <<"abc">>, client_secret |-> <<"s3cret">>]}

----------------------------------------------------------------------------
(* Replies of the Spotify Web API (spotipy): the inputs of the handlers *)

\* current_user()
NoUser == [display_name |-> Missing, id |-> Missing, images |-> <<>>]
Profiles ==
    {[display_name |-> "Alice", id |-> "u1", images |-> <<"avatar1">>],
     [display_name |-> None, id |-> "u1", images |-> <<>>],
     [display_name |-> None, id |-> Missing, images |-> <<"avatar1">>]}

\* "oauth_error": SpotifyOAuth or spotipy.Spotify raised; "user_error":
\* current_user() raised; "ok": current_user() returned `user`
AuthReplies ==
    {[status |-> st, user |-> NoUser] : st \in {"oauth_error", "user_error"}}
    \cup {[status |-> "ok", user |-> u] : u \in Profiles}

\* items of client.search(): the fields the window reads
Item(name, artists, owner, uri, images, album_images) ==
    [name |-> name, artists |-> artists, owner |-> owner, uri |-> uri,
     images |-> images, album_images |-> album_images]

RawTracks ==
    {Item("Yesterday", <<"The Beatles">>, Missing, "spotify:track:1", <<>>, <<"cover1">>),
     Item("Yesterday", <<"The Beatles">>, Missing, "", <<>>, <<"cover1">>),
     Item("Yesterday", <<>>, Missing, Missing, <<>>, <<>>)}
RawAlbums ==
    {Item("Help!", <<"The Beatles">>, Missing, "spotify:album:2", <<"cover2">>, <<>>)}
RawArtists ==
    {Item(Missing, <<>>, Missing, "spotify:artist:3", <<>>, <<>>)}
RawPlaylists ==
    {Item("Road trip", <<>>, "Bob", "spotify:playlist:4", <<None>>, <<>>)}

\* one result of a search, of any kind, with each field the label reads
\* present or missing
LabelItems ==
    {Item(name, artists, owner, uri, <<>>, <<>>) :
        name \in {Missing, "Yesterday"},
        artists \in {<<>>, <<Missing>>, <<"The Beatles">>},
        owner \in {Missing, "Bob"},
        uri \in {Missing, "", "spotify:x:1"}}

LabelReplies ==
    LET none == [ok |-> TRUE, tracks |-> <<>>, albums |-> <<>>,
                 artists |-> <<>>, playlists |-> <<>>]
    IN  UNION {{[none EXCEPT !.tracks = <<i>>], [none EXCEPT !.albums = <<i>>],
                [none EXCEPT !.artists = <<i>>], [none EXCEPT !.playlists = <<i>>]} :
               i \in LabelItems}

SearchReplies ==
    {r \in [ok : BOOLEAN,
            tracks : SeqUpTo(RawTracks, MaxResults),
            albums : SeqUpTo(RawAlbums, MaxResults),
            artists : SeqUpTo(RawArtists, MaxResults),
            playlists : SeqUpTo(RawPlaylists, MaxResults)] :
        /\ Len(r.tracks) + Len(r.albums) + Len(r.artists) + Len(r.playlists) <= MaxResults
        /\ (~r.ok => Len(r.tracks) + Len(r.albums) + Len(r.artists) + Len(r.playlists) = 0)}

\* devices of client.devices()
RawDevices ==
    {[name |-> "Kitchen", id |-> "id1"],
     [name |-> "Office", id |-> "id2"],
     [name |-> Missing, id |-> Missing]}

DeviceReplies ==
    {[ok |-> FALSE, devices |-> <<>>]}
    \cup {[ok |-> TRUE, devices |-> d] : d \in SeqUpTo(RawDevices, MaxDevices)}

\* client.current_playback(): raised (ok = FALSE), None (playback = FALSE), or
\* a playback with its item (None or the title of the track), its flag, its
\* position and the id of its device (None when the playback names none)
Playback(ok, playback, item, playing, progress_ms, device_id) ==
    [ok |-> ok, playback |-> playback, item |-> item, is_playing |-> playing,
     progress_ms |-> progress_ms, device_id |-> device_id]

PlaybackError == Playback(FALSE, FALSE, None, FALSE, 0, None)
NoPlayback == Playback(TRUE, FALSE, None, FALSE, 0, None)

Positions == {2000, 3000, 5000}
ActiveDevices == {None, "id1", "id9"}

\* the replies a poll tick tells apart
PollReplies ==
    {PlaybackError, NoPlayback}
    \cup {Playback(TRUE, TRUE, None, TRUE, 2000, None)}
    \cup {Playback(TRUE, TRUE, "Song A", p, 2000, None) : p \in BOOLEAN}
    \cup {Playback(TRUE, TRUE, "Song A", TRUE, 5000, None)}

\* the replies _get_current_device_id tells apart
DeviceProbeReplies ==
    {PlaybackError, NoPlayback}
    \cup {Playback(TRUE, TRUE, "Song A", TRUE, 2000, d) : d \in ActiveDevices}

\* the replies _previous_track tells apart
PositionReplies ==
    {PlaybackError, NoPlayback}
    \cup {Playback(TRUE, TRUE, None, TRUE, 2000, None)}
    \cup {Playback(TRUE, TRUE, "Song A", TRUE, ms, None) : ms \in Positions}

----------------------------------------------------------------------------
(* The state space is explored one world at a time.  In each world one       *)
(* collaborator (the account service, the catalog, the device listing, the   *)
(* player) answers with every reply listed above and the others with one     *)
(* plain reply, so that the reachable states are the sum over the worlds and *)
(* not the product of the replies.                                           *)

Worlds == {"session", "catalog", "devices", "playback"}

GoodConfig == [client_id |-> <<"abc">>, client_secret |-> <<"s3cret">>]
Alice == [display_name |-> "Alice", id |-> "u1", images |-> <<"avatar1">>]
OneTrack ==
    [ok |-> TRUE,
     tracks |-> <<Item("Yesterday", <<"The Beatles">>, Missing, "spotify:track:1",
                       <<>>, <<"cover1">>)>>,
     albums |-> <<>>, artists |-> <<>>, playlists |-> <<>>]

ConfigsIn(w) == IF w = "session" THEN Configs ELSE {GoodConfig}
AuthRepliesIn(w) ==
    IF w = "session" THEN AuthReplies ELSE {[status |-> "ok", user |-> Alice]}
SearchRepliesIn(w) == IF w = "catalog" THEN SearchReplies ELSE {OneTrack}
QueriesIn(w) == IF w = "catalog" THEN Queries ELSE {<<"q">>}
DeviceRepliesIn(w) ==
    IF w = "devices" THEN DeviceReplies
    ELSE {[ok |-> TRUE, devices |-> <<[name |-> "Kitchen", id |-> "id1"]>>]}
PollRepliesIn(w) ==
    IF w = "playback" THEN PollReplies
    ELSE {NoPlayback, Playback(TRUE, TRUE, "Song A", TRUE, 2000, None)}
DeviceProbeRepliesIn(w) == IF w = "playback" THEN DeviceProbeReplies ELSE {NoPlayback}
PositionRepliesIn(w) == IF w = "playback" THEN PositionReplies ELSE {NoPlayback}

----------------------------------------------------------------------------
(* SpotifyService *)

\* a read of the Web API by the running handler: what was read
\* ("current_user", "list_devices", or the get_current_playback of the device
\* "lookup", of the "position", of the "poll"), whether it returned, and the
\* active device a lookup was given
Fetched(s, what, ok, device) ==
    [s EXCEPT !.fetches = Append(@, <<what, ok, device>>)]

\* the active device of a snapshot, None when it names none
ActiveDevice(playback) ==
    IF playback.ok /\ playback.playback /\ Truthy(playback.device_id)
    THEN playback.device_id ELSE None


try_authenticate_from_cache_client_first(s, cfg, reply) ==
    IF ~credentials_are_configured(cfg) THEN [s |-> s, user |-> NoUser, ok |-> FALSE]
    ELSE IF reply.status = "ok"
         THEN [s |-> [Fetched(s, "current_user", TRUE, None) EXCEPT !.client = TRUE],
               user |-> reply.user, ok |-> TRUE]
         ELSE [s |-> [Fetched(s, "current_user", FALSE, None)
                         EXCEPT !.client = (reply.status = "user_error")],
               user |-> NoUser, ok |-> FALSE]

\* try_authenticate_from_cache: the client is kept only when current_user()
\* returned; the result is the user, or NoUser for None
try_authenticate_from_cache(s, cfg, reply) ==
    IF ~credentials_are_configured(cfg) THEN [s |-> s, user |-> NoUser, ok |-> FALSE]
    ELSE IF reply.status = "ok"
         THEN [s |-> [Fetched(s, "current_user", TRUE, None) EXCEPT !.client = TRUE],
               user |-> reply.user, ok |-> TRUE]
         ELSE [s |-> Fetched(s, "current_user", FALSE, None), user |-> NoUser,
               ok |-> FALSE]

\* authenticate: raised is "ConfigError", "SpotifyServiceError" or "" (returned)
authenticate(s, cfg, reply) ==
    IF ~credentials_are_configured(cfg)
    THEN [s |-> s, user |-> NoUser, raised |-> "ConfigError"]
    ELSE IF reply.status = "oauth_error"
         THEN [s |-> Fetched(s, "current_user", FALSE, None), user |-> NoUser,
               raised |-> "SpotifyServiceError"]
         ELSE IF reply.status = "user_error"
              THEN [s |-> [Fetched(s, "current_user", FALSE, None) EXCEPT !.client = TRUE],
                    user |-> NoUser, raised |-> "SpotifyServiceError"]
              ELSE [s |-> [Fetched(s, "current_user", TRUE, None) EXCEPT !.client = TRUE],
                    user |-> reply.user, raised |-> ""]

logout(s) == [s EXCEPT !.client = FALSE]

Tagged(items, kind) == [i \in 1..Len(items) |-> [result_type |-> kind, item |-> items[i]]]

\* search_tracks of the service: whether it raised, whether client.search was
\* called, and the tagged results in the order tracks, albums, artists, playlists
Service_search_tracks(s, query, reply) ==
    IF IsBlank(query) THEN [raised |-> FALSE, called |-> FALSE, results |-> <<>>]
    ELSE IF ~s.client THEN [raised |-> TRUE, called |-> FALSE, results |-> <<>>]
    ELSE IF ~reply.ok THEN [raised |-> TRUE, called |-> TRUE, results |-> <<>>]
    ELSE [raised |-> FALSE, called |-> TRUE,
          results |-> Tagged(reply.tracks, "track") \o Tagged(reply.albums, "album")
                      \o Tagged(reply.artists, "artist")
                      \o Tagged(reply.playlists, "playlist")]

\* list_devices
list_devices(s, reply) ==
    IF ~s.client \/ ~reply.ok THEN [raised |-> TRUE, devices |-> <<>>]
    ELSE [raised |-> FALSE, devices |-> reply.devices]

\* get_current_playback
get_current_playback(s, reply) ==
    IF ~s.client THEN PlaybackError ELSE reply

----------------------------------------------------------------------------
(* MainWindow: the search box, the authentication, the result list *)

_set_search_placeholder(s) ==
    [s EXCEPT !.search_placeholder_active = TRUE, !.search_text = SEARCH_PLACEHOLDER]

_clear_search_placeholder(s) ==
    IF ~s.search_placeholder_active THEN s
    ELSE [s EXCEPT !.search_placeholder_active = FALSE, !.search_text = <<>>]

_on_search_focus_in(s) ==
    IF s.search_entry_state = "disabled" THEN s
    ELSE IF s.search_placeholder_active THEN _clear_search_placeholder(s) ELSE s

_on_search_focus_out(s) ==
    IF s.search_entry_state = "disabled" THEN s
    ELSE IF IsBlank(s.search_text) THEN _set_search_placeholder(s) ELSE s

_on_search_var_changed_no_cancel(s) ==
    IF s.search_placeholder_active \/ s.username = None THEN s
    ELSE [s EXCEPT !.search_after_id = "live",
                   !.search_orphans = Orphaned(s.search_after_id, @)]

\* the trace on the search variable: (re)arm the debounce timer
_on_search_var_changed(s) ==
    IF s.search_placeholder_active \/ s.username = None THEN s
    ELSE [s EXCEPT !.search_after_id = "live",
                   !.search_orphans = Orphaned(after_cancel(s.search_after_id), @)]

_clear_results_display(s) == [s EXCEPT !.result_items = <<>>, !.selected_name = None]

\* one frame per entry, none of them highlighted
_display_results(s, entries) ==
    [s EXCEPT !.result_items = [i \in 1..Len(entries) |-> entries[i][1]],
              !.selected_name = None]

\* the frames named display_name get the accent colour, the others lose it
_select_result(s, display_name) == [s EXCEPT !.selected_name = display_name]

_stop_progress_update(s) ==
    IF s.progress_update_job # None
    THEN [s EXCEPT !.progress_update_job = None]
    ELSE s

_update_auth_ui_keeps_device(s) ==
    IF s.username # None
    THEN [s EXCEPT !.search_entry_state = "normal"]
    ELSE LET s1 == [s EXCEPT !.search_after_id = None,
                             !.search_entry_state = "disabled"]
             s2 == clear_tracks(_clear_results_display(_set_search_placeholder(s1)))
             s3 == [s2 EXCEPT !.controls_state = "disabled"]
         IN  [_stop_progress_update(s3) EXCEPT !.current_track = None]

_update_auth_ui(s) ==
    IF s.username # None
    THEN [s EXCEPT !.search_entry_state = "normal"]
    ELSE LET s1 == [s EXCEPT !.search_after_id = None,
                             !.search_entry_state = "disabled"]
             s2 == clear_tracks(_clear_results_display(_set_search_placeholder(s1)))
             s3 == [s2 EXCEPT !.device_var = "", !.controls_state = "disabled"]
         IN  [_stop_progress_update(s3) EXCEPT !.current_track = None]

\* item.get("duration_ms", 0) of the items the player knows
duration_ms(item) ==
    CASE item = "Song A" -> 4000
      [] item = "Jingle" -> 1000
      [] OTHER -> 0

\* (progress_ms / duration_ms) * 100, its integer part
ProgressPercent(progress_ms, duration) == (progress_ms * 100) \div duration

\* the progress bar, set when the item has a duration
ShowProgress(s, playback) ==
    IF duration_ms(playback.item) > 0
    THEN [s EXCEPT !.progress_value =
                       ProgressPercent(playback.progress_ms, duration_ms(playback.item))]
    ELSE s

\* the poll timer is armed again: root.after(1000, self._update_progress)
ScheduleProgress(s) ==
    [s EXCEPT !.progress_update_job = "live",
              !.progress_orphans = Orphaned(s.progress_update_job, @)]

_update_progress_retries(s, reply) ==
    IF ~s.client THEN _stop_progress_update(s)
    ELSE LET playback == get_current_playback(s, reply)
             s0 == Fetched(s, "poll", playback.ok, None)
         IN
         IF ~playback.ok THEN ScheduleProgress(s0)
         ELSE IF ~playback.playback \/ ~Truthy(playback.item)
              THEN ScheduleProgress([s0 EXCEPT !.is_playing = FALSE,
                                               !.current_track = None,
                                               !.controls_state = "disabled"])
              ELSE ScheduleProgress(ShowProgress(
                       [s0 EXCEPT !.is_playing = playback.is_playing,
                                  !.current_track = playback.item,
                                  !.controls_state = "normal"], playback))

_update_progress_keeps_controls(s, reply) ==
    IF ~s.client THEN _stop_progress_update(s)
    ELSE LET playback == get_current_playback(s, reply)
             s0 == Fetched(s, "poll", playback.ok, None)
         IN
         IF ~playback.ok THEN _stop_progress_update(s0)
         ELSE IF ~playback.playback \/ ~Truthy(playback.item)
              THEN ScheduleProgress([s0 EXCEPT !.is_playing = FALSE,
                                              !.current_track = None])
              ELSE ScheduleProgress(ShowProgress(
                       [s0 EXCEPT !.is_playing = playback.is_playing,
                                  !.current_track = playback.item,
                                  !.controls_state = "normal"], playback))

\* a poll tick
_update_progress(s, reply) ==
    IF ~s.client THEN _stop_progress_update(s)
    ELSE LET playback == get_current_playback(s, reply)
             s0 == Fetched(s, "poll", playback.ok, None)
         IN
         IF ~playback.ok THEN _stop_progress_update(s0)
         ELSE IF ~playback.playback \/ ~Truthy(playback.item)
              THEN ScheduleProgress([s0 EXCEPT !.is_playing = FALSE,
                                              !.current_track = None,
                                              !.controls_state = "disabled"])
              ELSE ScheduleProgress(ShowProgress(
                       [s0 EXCEPT !.is_playing = playback.is_playing,
                                  !.current_track = playback.item,
                                  !.controls_state = "normal"], playback))

_start_progress_update_no_stop(s, reply) == _update_progress(s, reply)

_start_progress_update(s, reply) == _update_progress(_stop_progress_update(s), reply)

----------------------------------------------------------------------------
(* MainWindow: the devices *)

SelectFirstDevice(previous_selection, new_map) ==
    IF new_map = <<>> THEN "" ELSE new_map[1][1]

\* the selection refresh_devices leaves
SelectionAfterRefresh(previous_selection, new_map) ==
    IF new_map = <<>> THEN ""
    ELSE IF previous_selection \in OKeys(new_map) THEN previous_selection
         ELSE new_map[1][1]

DevicePairs(devices) ==
    [i \in 1..Len(devices) |->
        <<Get(devices[i].name, "Appareil inconnu"), Get(devices[i].id, "")>>]

refresh_devices(s, reply) ==
    IF ~s.client THEN [s EXCEPT !.dialog = Warning("Non connecte")]
    ELSE LET r == list_devices(s, reply)
             s0 == Fetched(s, "list_devices", ~r.raised, None)
         IN
         IF r.raised THEN [s0 EXCEPT !.dialog = Error("Erreur Spotify")]
         ELSE LET s1 == set_devices(s0, DevicePairs(r.devices)) IN
              [s1 EXCEPT !.device_var = SelectionAfterRefresh(s.device_var, s1.device_map),
                         !.dialog = IF s1.device_map = <<>>
                                    THEN Info("Aucun appareil") ELSE @]

_set_device(s, device_name) == [s EXCEPT !.device_var = device_name]

----------------------------------------------------------------------------
(* MainWindow: authentication *)

UserName(user) == Or(Get(user.display_name, None), Get(user.id, None))
UserAvatar(user) == IF user.images # <<>> THEN user.images[1] ELSE None

SignedIn(s, user, devices, playback) ==
    LET s1 == [s EXCEPT !.username = UserName(user), !.avatar_url = UserAvatar(user)]
    IN  _start_progress_update(refresh_devices(_update_auth_ui(s1), devices), playback)

_try_auto_authenticate(s, cfg, auth, devices, playback) ==
    LET r == try_authenticate_from_cache(s, cfg, auth) IN
    IF r.ok THEN SignedIn(r.s, r.user, devices, playback) ELSE r.s

authenticate_spotify_polls_on_failure(s, cfg, auth, devices, playback) ==
    LET r == authenticate(s, cfg, auth) IN
    IF r.raised = "ConfigError"
    THEN [r.s EXCEPT !.dialog = Warning("Identifiants manquants")]
    ELSE IF r.raised = "SpotifyServiceError"
         THEN _start_progress_update(
                  [r.s EXCEPT !.dialog = Error("Erreur d'authentification")], playback)
         ELSE SignedIn(r.s, r.user, devices, playback)

authenticate_spotify(s, cfg, auth, devices, playback) ==
    LET r == authenticate(s, cfg, auth) IN
    IF r.raised = "ConfigError"
    THEN [r.s EXCEPT !.dialog = Warning("Identifiants manquants")]
    ELSE IF r.raised = "SpotifyServiceError"
         THEN [r.s EXCEPT !.dialog = Error("Erreur d'authentification")]
         ELSE SignedIn(r.s, r.user, devices, playback)

disconnect_spotify(s) ==
    IF ~s.client THEN s ELSE _update_auth_ui(reset(logout(s)))

----------------------------------------------------------------------------
(* MainWindow: the search *)

Dash == " - "

FirstArtistOrBlank(item) ==
    IF item.artists # <<>> THEN Get(item.artists[1], "Artiste inconnu")
    ELSE ""

FirstArtist(item) ==
    IF item.artists # <<>> THEN Get(item.artists[1], "Artiste inconnu")
    ELSE "Artiste inconnu"

\* the label of a result, by kind
DisplayName(result) ==
    LET item == result.item IN
    CASE result.result_type = "track" ->
            Get(item.name, "Sans titre") \o Dash \o FirstArtist(item)
      [] result.result_type = "album" ->
            Get(item.name, "Sans titre") \o Dash \o FirstArtist(item)
      [] result.result_type = "artist" -> Get(item.name, "Artiste inconnu")
      [] result.result_type = "playlist" ->
            Get(item.name, "Sans titre") \o Dash \o Get(item.owner, "Utilisateur inconnu")
      [] OTHER -> Get(item.name, "Inconnu")

\* the thumbnail of a result: the album's first image for a track, the
\* result's own first image otherwise
ImageUrl(result) ==
    LET images == IF result.result_type = "track" THEN result.item.album_images
                  ELSE result.item.images
    IN  IF images # <<>> THEN images[1] ELSE None

EntryOf(result) ==
    <<DisplayName(result), Get(result.item.uri, ""), result.result_type, ImageUrl(result)>>

RECURSIVE ResultEntriesUnfiltered(_)
ResultEntriesUnfiltered(results) ==
    IF results = <<>> THEN <<>>
    ELSE <<EntryOf(Head(results))>> \o ResultEntriesUnfiltered(Tail(results))

\* the entries kept from the results: those with a URI
RECURSIVE ResultEntries(_)
ResultEntries(results) ==
    IF results = <<>> THEN <<>>
    ELSE (IF Truthy(EntryOf(Head(results))[2]) THEN <<EntryOf(Head(results))>> ELSE <<>>)
         \o ResultEntries(Tail(results))

EmptyQuery(s, manual_trigger) ==
    IF manual_trigger THEN [s EXCEPT !.dialog = Warning("Recherche vide")]
    ELSE clear_tracks(_clear_results_display(s))

search_tracks_clears_first(s, manual_trigger, reply) ==
    LET s0 == clear_tracks(_clear_results_display(
                  [s EXCEPT !.search_after_id = None,
                            !.search_orphans =
                                IF manual_trigger THEN @
                                ELSE Orphaned(s.search_after_id, @)]))
        query == s0.search_text
    IN
    IF s0.search_placeholder_active THEN EmptyQuery(s0, manual_trigger)
    ELSE IF IsBlank(query) THEN EmptyQuery(s0, manual_trigger)
    ELSE IF ~s0.client
         THEN IF manual_trigger THEN [s0 EXCEPT !.dialog = Error("Non connecte")] ELSE s0
    ELSE LET r == Service_search_tracks(s0, query, reply)
             s1 == [s0 EXCEPT !.calls =
                        IF r.called THEN Append(@, Call("search", None, None, ~r.raised))
                        ELSE @,
                              !.search_results = r.results]
         IN
         IF r.raised
         THEN IF manual_trigger THEN [s1 EXCEPT !.dialog = Error("Erreur de recherche")]
              ELSE s1
         ELSE IF r.results = <<>>
              THEN IF manual_trigger THEN [s1 EXCEPT !.dialog = Info("Aucun resultat")]
                   ELSE s1
              ELSE LET entries == ResultEntries(r.results)
                   IN  _display_results(set_tracks(s1, entries), entries)

search_tracks(s, manual_trigger, reply) ==
    LET s0 == [s EXCEPT !.search_after_id = None,
                        !.search_orphans =
                            IF manual_trigger THEN @ ELSE Orphaned(s.search_after_id, @)]
        query == s0.search_text
    IN
    IF s0.search_placeholder_active THEN EmptyQuery(s0, manual_trigger)
    ELSE IF IsBlank(query) THEN EmptyQuery(s0, manual_trigger)
    ELSE IF ~s0.client
         THEN IF manual_trigger THEN [s0 EXCEPT !.dialog = Error("Non connecte")] ELSE s0
    ELSE LET r == Service_search_tracks(s0, query, reply)
             s1 == [s0 EXCEPT !.calls =
                        IF r.called THEN Append(@, Call("search", None, None, ~r.raised))
                        ELSE @,
                              !.search_results = r.results]
         IN
         IF r.raised
         THEN IF manual_trigger THEN [s1 EXCEPT !.dialog = Error("Erreur de recherche")]
              ELSE s1
         ELSE LET s2 == clear_tracks(_clear_results_display(s1)) IN
              IF r.results = <<>>
              THEN IF manual_trigger THEN [s2 EXCEPT !.dialog = Info("Aucun resultat")]
                   ELSE s2
              ELSE LET entries == ResultEntries(r.results)
                   IN  _display_results(set_tracks(s2, entries), entries)

----------------------------------------------------------------------------
(* MainWindow: playback *)

\* the first position from which "previous" restarts the current track
RESTART_THRESHOLD_MS == 3000

\* a call of the service that changes the playback: it is logged with its
\* outcome; _ensure_client raises before any call when there is no client
Called(s, fn, device_id, arg, ok) ==
    IF s.client THEN [s EXCEPT !.calls = Append(@, Call(fn, device_id, arg, ok))] ELSE s

ReturnedAlways(s, ok) == s.client

Returned(s, ok) == s.client /\ ok

_get_current_device_id_selected_first(s, reply) ==
    LET playback == get_current_playback(s, reply) IN
    IF Truthy(s.device_var) /\ Truthy(get_device_id(s, s.device_var))
    THEN get_device_id(s, s.device_var)
    ELSE IF playback.ok /\ playback.playback /\ Truthy(playback.device_id)
         THEN playback.device_id
         ELSE None

_get_current_device_id(s, reply) ==
    LET playback == get_current_playback(s, reply) IN
    IF playback.ok /\ playback.playback /\ Truthy(playback.device_id)
    THEN playback.device_id
    ELSE IF Truthy(s.device_var) /\ Truthy(get_device_id(s, s.device_var))
         THEN get_device_id(s, s.device_var)
         ELSE None

\* the state after _get_current_device_id has read the snapshot
Lookup(s, reply) ==
    Fetched(s, "lookup", get_current_playback(s, reply).ok,
            ActiveDevice(get_current_playback(s, reply)))

play_selected_track_always_uris(s, display_name, ok, poll) ==
    IF ~s.client THEN [s EXCEPT !.dialog = Error("Non connecte")]
    ELSE LET name == IF display_name = None THEN s.selected_name ELSE display_name IN
    IF name = None THEN [s EXCEPT !.dialog = Warning("Aucune selection")]
    ELSE LET uri == IF name \in DOMAIN s.track_uris THEN s.track_uris[name] ELSE None
             device_id == get_device_id(s, s.device_var)
         IN
         IF ~Truthy(uri) THEN [s EXCEPT !.dialog = Error("URI introuvable")]
         ELSE IF ~Truthy(s.device_var) \/ ~Truthy(device_id)
              THEN [s EXCEPT !.dialog = Warning("Aucun appareil selectionne")]
         ELSE LET s1 == Called(s, "start_playback(uris)", device_id, uri, ok) IN
              IF Returned(s, ok)
              THEN _start_progress_update(
                       [s1 EXCEPT !.is_playing = TRUE, !.controls_state = "normal"],
                       poll)
              ELSE [s1 EXCEPT !.dialog = Error("Lecture impossible")]

\* display_name is None for "the highlighted result"
play_selected_track(s, display_name, ok, poll) ==
    IF ~s.client THEN [s EXCEPT !.dialog = Error("Non connecte")]
    ELSE LET name == IF display_name = None THEN s.selected_name ELSE display_name IN
    IF name = None THEN [s EXCEPT !.dialog = Warning("Aucune selection")]
    ELSE LET uri == IF name \in DOMAIN s.track_uris THEN s.track_uris[name] ELSE None
             result_type == IF name \in DOMAIN s.result_types
                            THEN s.result_types[name] ELSE "track"
             device_id == get_device_id(s, s.device_var)
         IN
         IF ~Truthy(uri) THEN [s EXCEPT !.dialog = Error("URI introuvable")]
         ELSE IF ~Truthy(s.device_var) \/ ~Truthy(device_id)
              THEN [s EXCEPT !.dialog = Warning("Aucun appareil selectionne")]
         ELSE LET fn == IF result_type = "track" THEN "start_playback(uris)"
                        ELSE "start_playback(context_uri)"
                  s1 == Called(s, fn, device_id, uri, ok)
              IN  IF Returned(s, ok)
                  THEN _start_progress_update(
                           [s1 EXCEPT !.is_playing = TRUE, !.controls_state = "normal"],
                           poll)
                  ELSE [s1 EXCEPT !.dialog = Error("Lecture impossible")]

_toggle_play_pause_ignores_selection(s, probe, ok, poll) ==
    IF ~s.client THEN s
    ELSE LET device_id == _get_current_device_id(s, probe)
             s0 == Lookup(s, probe)
         IN
         IF ~Truthy(device_id) THEN [s0 EXCEPT !.dialog = Warning("Aucun appareil actif")]
         ELSE LET fn == IF s.is_playing THEN "pause_playback" ELSE "resume_playback"
                  s1 == Called(s0, fn, device_id, None, ok)
              IN  IF Returned(s, ok) THEN [s1 EXCEPT !.is_playing = ~s.is_playing]
                  ELSE [s1 EXCEPT !.dialog = Error("Erreur de controle")]

_toggle_play_pause(s, probe, ok, poll) ==
    IF ~s.client THEN s
    ELSE IF s.selected_name # None THEN play_selected_track(s, s.selected_name, ok, poll)
    ELSE LET device_id == _get_current_device_id(s, probe)
             s0 == Lookup(s, probe)
         IN
         IF ~Truthy(device_id) THEN [s0 EXCEPT !.dialog = Warning("Aucun appareil actif")]
         ELSE LET fn == IF s.is_playing THEN "pause_playback" ELSE "resume_playback"
                  s1 == Called(s0, fn, device_id, None, ok)
              IN  IF Returned(s, ok) THEN [s1 EXCEPT !.is_playing = ~s.is_playing]
                  ELSE [s1 EXCEPT !.dialog = Error("Erreur de controle")]

_next_track(s, probe, ok, poll) ==
    IF ~s.client THEN s
    ELSE LET device_id == _get_current_device_id(s, probe)
             s0 == Lookup(s, probe)
         IN
         IF ~Truthy(device_id) THEN [s0 EXCEPT !.dialog = Warning("Aucun appareil actif")]
         ELSE LET s1 == Called(s0, "next_track", device_id, None, ok) IN
              IF Returned(s, ok) THEN _start_progress_update(s1, poll)
              ELSE [s1 EXCEPT !.dialog = Error("Erreur")]

SeekToStartNoDevice(s, device_id, ok_seek, poll) ==
    LET s1 == Called(s, "seek_to_position", None, "0", ok_seek) IN
    IF Returned(s, ok_seek) THEN _start_progress_update(s1, poll)
    ELSE [s1 EXCEPT !.dialog = Error("Erreur")]

\* seek_to_position(0) and what follows it
SeekToStart(s, device_id, ok_seek, poll) ==
    LET s1 == Called(s, "seek_to_position", device_id, "0", ok_seek) IN
    IF Returned(s, ok_seek) THEN _start_progress_update(s1, poll)
    ELSE [s1 EXCEPT !.dialog = Error("Erreur")]

IsInFirst3SecondsInclusive(progress_ms) == progress_ms <= RESTART_THRESHOLD_MS

IsInFirst3Seconds(progress_ms) == progress_ms < RESTART_THRESHOLD_MS

_previous_track(s, probe, position, ok_previous, ok_seek, poll) ==
    IF ~s.client THEN s
    ELSE LET device_id == _get_current_device_id(s, probe)
             sd == Lookup(s, probe)
         IN
         IF ~Truthy(device_id) THEN [sd EXCEPT !.dialog = Warning("Aucun appareil actif")]
         ELSE LET playback == get_current_playback(s, position)
                  sp == Fetched(sd, "position", playback.ok, None)
              IN
              IF ~playback.ok THEN sp
              ELSE IF ~playback.playback \/ ~Truthy(playback.item) THEN sp
              ELSE LET s0 == [sp EXCEPT !.progress_read = playback.progress_ms] IN
                   IF IsInFirst3Seconds(playback.progress_ms)
                   THEN LET s1 == Called(s0, "previous_track", device_id, None, ok_previous)
                        IN  IF Returned(s, ok_previous)
                            THEN _start_progress_update(s1, poll)
                            ELSE SeekToStart(s1, device_id, ok_seek, poll)
                   ELSE SeekToStart(s0, device_id, ok_seek, poll)

----------------------------------------------------------------------------
(* The three-snapshot poll scenario: how many consecutive timer ticks have   *)
(* returned, in order, (a track, playing), (a track, paused), (no track).    *)

HasItem(reply) == reply.ok /\ reply.playback /\ Truthy(reply.item)

PollScenario(seen, reply) ==
    IF HasItem(reply) /\ reply.is_playing THEN 1
    ELSE IF seen = 1 /\ HasItem(reply) /\ ~reply.is_playing THEN 2
    ELSE IF seen = 2 /\ reply.ok /\ ~HasItem(reply) THEN 3
    ELSE 0

----------------------------------------------------------------------------
(* The state machine *)

\* the window before the end of MainWindow.__init__, in one of the worlds ws
InitIn(ws) ==
    /\ track_uris = EmptyDict /\ result_types = EmptyDict /\ image_urls = EmptyDict
    /\ device_map = <<>> /\ username = None /\ avatar_url = None
    /\ world \in ws
    /\ client = FALSE /\ config \in ConfigsIn(world)
    /\ device_var = "" /\ search_text = SEARCH_PLACEHOLDER
    /\ search_placeholder_active = TRUE /\ search_entry_state = "disabled"
    /\ search_after_id = None /\ result_items = <<>> /\ selected_name = None
    /\ is_playing = FALSE /\ controls_state = "disabled" /\ current_track = None
    /\ progress_update_job = None
    /\ search_orphans = 0 /\ progress_orphans = 0
    /\ op = "__init__" /\ dialog = NoDialog /\ calls = <<>> /\ progress_read = -1
    /\ fetches = <<>> /\ search_results = <<>> /\ progress_value = -1
    /\ phase = "constructing" /\ pollSeq = 0

Init == InitIn(Worlds)

Running == phase = "running"

Handler(s, name) == Commit(s, name) /\ phase' = phase /\ pollSeq' = 0

\* the end of MainWindow.__init__
TryAutoAuthenticate ==
    /\ phase = "constructing"
    /\ \E auth \in AuthRepliesIn(world), devices \in DeviceRepliesIn(world),
          poll \in PollRepliesIn(world) :
          Commit(_try_auto_authenticate(State, config, auth, devices, poll),
                 "_try_auto_authenticate")
    /\ phase' = "running" /\ pollSeq' = 0

\* the "Connexion" button, shown while no user name is set
AuthenticateSpotify ==
    /\ Running /\ username = None
    /\ \E auth \in AuthRepliesIn(world), devices \in DeviceRepliesIn(world),
          poll \in PollRepliesIn(world) :
          Handler(authenticate_spotify(State, config, auth, devices, poll),
                  "authenticate_spotify")

\* "Deconnexion" in the profile menu, which opens while a user name is set
DisconnectSpotify ==
    /\ Running /\ username # None
    /\ Handler(disconnect_spotify(State), "disconnect_spotify")

SearchFocusIn ==
    /\ Running /\ search_entry_state = "normal" /\ search_placeholder_active
    /\ Handler(_on_search_focus_in(State), "_on_search_focus_in")

SearchFocusOut ==
    /\ Running /\ search_entry_state = "normal" /\ ~search_placeholder_active
    /\ IsBlank(search_text)
    /\ Handler(_on_search_focus_out(State), "_on_search_focus_out")

\* the user edits the text of the focused search box
SearchType ==
    /\ Running /\ search_entry_state = "normal" /\ ~search_placeholder_active
    /\ \E text \in QueriesIn(world) \ {search_text} :
          Handler(_on_search_var_changed([State EXCEPT !.search_text = text]),
                  "_on_search_var_changed")

\* the replies to choose from: one is enough when the handler returns before
\* it calls the service
SearchRepliesNow ==
    IF ~search_placeholder_active /\ ~IsBlank(search_text) /\ client
    THEN SearchRepliesIn(world) ELSE {OneTrack}

\* <Return> in the search box
SearchManual ==
    /\ Running
    /\ \E reply \in SearchRepliesNow :
          Handler(search_tracks(State, TRUE, reply), "search_tracks(manual)")

\* the debounce timer fires
SearchDebounced ==
    /\ Running
    /\ \/ search_after_id = "live"
       \/ search_orphans > 0
    /\ \E reply \in SearchRepliesNow, orphan \in BOOLEAN :
          /\ IF orphan THEN search_orphans > 0 ELSE search_after_id = "live"
          /\ Handler(search_tracks(
                        IF orphan
                        THEN [State EXCEPT !.search_orphans = @ - 1]
                        ELSE [State EXCEPT !.search_after_id = "stale"],
                        FALSE, reply),
                     "search_tracks(debounced)")

\* the "Actualiser" button, enabled while a user name is set, and the device
\* icon, which refreshes when the service has a client and the map is empty
RefreshDevices ==
    /\ Running
    /\ username # None \/ (client /\ device_map = <<>>)
    /\ \E reply \in DeviceRepliesIn(world) :
          Handler(refresh_devices(State, reply), "refresh_devices")

\* an entry of the device menu
SetDevice ==
    /\ Running /\ client
    /\ \E name \in OKeys(device_map) \ {device_var} :
          Handler(_set_device(State, name), "_set_device")

\* a click on a result
SelectResult ==
    /\ Running
    /\ \E i \in 1..Len(result_items) :
          /\ result_items[i] # selected_name
          /\ Handler(_select_result(State, result_items[i]), "_select_result")

\* a double click on a result
PlayResult ==
    /\ Running
    /\ \E i \in 1..Len(result_items), ok \in BOOLEAN, poll \in PollRepliesIn(world) :
          Handler(play_selected_track(_select_result(State, result_items[i]),
                                      result_items[i], ok, poll),
                  "play_selected_track")

TogglePlayPause ==
    /\ Running /\ controls_state = "normal"
    /\ \E probe \in DeviceProbeRepliesIn(world), ok \in BOOLEAN, poll \in PollRepliesIn(world) :
          Handler(_toggle_play_pause(State, probe, ok, poll), "_toggle_play_pause")

NextTrack ==
    /\ Running /\ controls_state = "normal"
    /\ \E probe \in DeviceProbeRepliesIn(world), ok \in BOOLEAN, poll \in PollRepliesIn(world) :
          Handler(_next_track(State, probe, ok, poll), "_next_track")

PreviousTrack ==
    /\ Running /\ controls_state = "normal"
    /\ \E probe \in DeviceProbeRepliesIn(world), position \in PositionRepliesIn(world),
          ok_previous \in BOOLEAN, ok_seek \in BOOLEAN, poll \in PollRepliesIn(world) :
          Handler(_previous_track(State, probe, position, ok_previous, ok_seek, poll),
                  "_previous_track")

\* the poll timer fires
PollTick ==
    /\ Running
    /\ \/ progress_update_job = "live"
       \/ progress_orphans > 0
    /\ \E reply \in PollRepliesIn(world), orphan \in BOOLEAN :
          /\ IF orphan THEN progress_orphans > 0 ELSE progress_update_job = "live"
          /\ Commit(_update_progress(
                        IF orphan
                        THEN [State EXCEPT !.progress_orphans = @ - 1]
                        ELSE [State EXCEPT !.progress_update_job = "stale"],
                        reply),
                    "_update_progress")
          /\ pollSeq' = PollScenario(pollSeq, get_current_playback(State, reply))
    /\ phase' = phase

Next ==
    \/ TryAutoAuthenticate
    \/ AuthenticateSpotify
    \/ DisconnectSpotify
    \/ SearchFocusIn
    \/ SearchFocusOut
    \/ SearchType
    \/ SearchManual
    \/ SearchDebounced
    \/ RefreshDevices
    \/ SetDevice
    \/ SelectResult
    \/ PlayResult
    \/ TogglePlayPause
    \/ NextTrack
    \/ PreviousTrack
    \/ PollTick

Spec == Init /\ [][Next]_vars

----------------------------------------------------------------------------
(* The labels of the results: the window starts, the user types a query and
   searches, and the search returns one result of any shape *)

LabelInit == InitIn({"labels"})

LabelSearch ==
    /\ Running /\ world = "labels"
    /\ \E reply \in LabelReplies :
          Handler(search_tracks(State, TRUE, reply), "search_tracks(manual)")

LabelNext ==
    \/ TryAutoAuthenticate
    \/ SearchFocusIn
    \/ SearchType
    \/ LabelSearch

LabelSpec == LabelInit /\ [][LabelNext]_vars

----------------------------------------------------------------------------
(* Properties *)

IsSearch(o) == o \in {"search_tracks(manual)", "search_tracks(debounced)"}
SearchCalls == {i \in 1..Len(calls) : calls[i][1] = "search"}

\* C1: in every reachable state the three result maps track_uris,
\* result_types and image_urls have the same key set.
C1_ParallelMapsSameKeys ==
    /\ DOMAIN track_uris = DOMAIN result_types
    /\ DOMAIN result_types = DOMAIN image_urls

\* a search has stored two entries under two labels
C1_Witness ==
    /\ IsSearch(op)
    /\ Cardinality(DOMAIN track_uris) = 2
    /\ DOMAIN track_uris = DOMAIN image_urls

\* C2: in every reachable state every stored playable reference is a
\* non-empty string, and every displayed result has one.
C2_UrisNonEmpty ==
    /\ \A k \in DOMAIN track_uris : track_uris[k] \notin {"", None, Missing}
    /\ \A i \in 1..Len(result_items) : result_items[i] \in DOMAIN track_uris

\* a search returned results, all of them without a URI: nothing is stored
C2_Witness ==
    /\ op = "search_tracks(manual)"
    /\ SearchCalls # {} /\ \A i \in SearchCalls : calls[i][4]
    /\ dialog = NoDialog
    /\ track_uris = EmptyDict /\ result_items = <<>>

\* C3: in every reachable state every entry of the device map has a
\* non-empty device identifier.
C3_DeviceIdsNonEmpty ==
    \A i \in 1..Len(device_map) : device_map[i][2] \notin {"", None, Missing}

\* C4: a refresh of the devices that succeeds keeps the previous selection
\* when the new map has it, selects the first name of the new map otherwise,
\* and selects nothing when the new map is empty.
C4_SelectionAfterRefresh ==
    [][(op' = "refresh_devices" /\ dialog'.kind # "error"
            /\ dialog' # Warning("Non connecte"))
        => device_var' =
              IF device_map' = <<>> THEN ""
              ELSE IF device_var \in OKeys(device_map') THEN device_var
                   ELSE device_map'[1][1]]_vars

\* a refresh has kept a selection that is not the first device of the new map
C4_Witness ==
    /\ op = "refresh_devices" /\ dialog = NoDialog
    /\ Len(device_map) = 2 /\ device_var = device_map[2][1]

\* C5: after logout the user name and the avatar are absent, the three
\* result maps and the device map are empty and no device is selected.
C5_LogoutClearsAll ==
    op = "disconnect_spotify" =>
        /\ username = None /\ avatar_url = None
        /\ track_uris = EmptyDict /\ result_types = EmptyDict
        /\ image_urls = EmptyDict
        /\ device_map = <<>> /\ device_var = ""

C5_Witness == op = "disconnect_spotify" /\ ~client /\ username = None

\* C6: a manual search right after logout, the search box holding a text
\* that is not blank, is refused as not authenticated, calls no external
\* search and leaves the results empty.
C6_SearchAfterLogoutNotAuthenticated ==
    [][(op = "disconnect_spotify" /\ Strip(search_text) # <<>>
            /\ op' = "search_tracks(manual)")
        => /\ dialog' = Error("Non connecte")
           /\ calls' = <<>>
           /\ track_uris' = EmptyDict]_vars

\* C7: a search whose text is blank, or that runs while the placeholder is
\* shown, calls no external search, manual or debounced, with or without a
\* session; the service's own search returns no result for a blank query
\* without calling the API.
C7_BlankQueryNoCall ==
    /\ (IsSearch(op) /\ (search_placeholder_active \/ Strip(search_text) = <<>>))
           => calls = <<>>
    /\ \A q \in Queries :
           Strip(q) = <<>> =>
               Service_search_tracks(State, q, OneTrack) =
                   [raised |-> FALSE, called |-> FALSE, results |-> <<>>]

\* a debounced search of a text of blanks, with a session
C7_Witness ==
    /\ op = "search_tracks(debounced)" /\ client
    /\ ~search_placeholder_active /\ search_text = <<" ">>
    /\ calls = <<>>

IsPrevious == op = "_previous_track" /\ progress_read >= 0

\* C8 as stated: below the threshold skip-to-previous is called first, and
\* when it fails seek(0) on the same device resets the position with no
\* dialog.
C8_FallbackAlwaysSilent ==
    (IsPrevious /\ progress_read < RESTART_THRESHOLD_MS) =>
        /\ calls # <<>> /\ calls[1][1] = "previous_track"
        /\ ~calls[1][4] =>
              /\ Len(calls) = 2
              /\ calls[2] = Call("seek_to_position", calls[1][2], "0", TRUE)
              /\ dialog = NoDialog

\* C8, amended: below the threshold skip-to-previous is called first; when
\* it fails seek(0) is called on the same device; when the seek returns no
\* dialog is shown, and when the seek fails too the error is shown.
C8_FallbackToSeek ==
    (IsPrevious /\ progress_read < RESTART_THRESHOLD_MS) =>
        /\ calls # <<>> /\ calls[1][1] = "previous_track"
        /\ calls[1][4] => Len(calls) = 1 /\ dialog = NoDialog
        /\ ~calls[1][4] =>
              /\ Len(calls) = 2
              /\ calls[2][1] = "seek_to_position"
              /\ calls[2][2] = calls[1][2] /\ calls[2][3] = "0"
              /\ dialog = IF calls[2][4] THEN NoDialog ELSE Error("Erreur")

\* skip-to-previous failed at 2000 ms and the seek to 0 returned
C8_Witness ==
    /\ IsPrevious /\ progress_read = 2000
    /\ Len(calls) = 2 /\ ~calls[1][4] /\ calls[2][4]
    /\ dialog = NoDialog

\* C9: at or above the threshold seek(0) is called and skip-to-previous is
\* not.
C9_SeekOnlyAtOrAboveThreshold ==
    (IsPrevious /\ progress_read >= RESTART_THRESHOLD_MS) =>
        /\ Len(calls) = 1
        /\ calls[1][1] = "seek_to_position" /\ calls[1][3] = "0"

\* "previous" at exactly 3000 ms
C9_Witness ==
    /\ IsPrevious /\ progress_read = RESTART_THRESHOLD_MS
    /\ Len(calls) = 1 /\ calls[1][1] = "seek_to_position"

\* the states of the playback controller, read from the window
ViewState ==
    IF is_playing THEN "Playing"
    ELSE IF current_track # None THEN "Paused" ELSE "Ready"

\* C10: three consecutive poll ticks returning (a track, playing), (the
\* track, paused), (no track) leave the view Playing, Paused, Ready, with the
\* transport controls enabled after the first two and disabled after the third.
C10_PollScenario ==
    /\ pollSeq = 1 => ViewState = "Playing" /\ controls_state = "normal"
    /\ pollSeq = 2 => ViewState = "Paused" /\ controls_state = "normal"
    /\ pollSeq = 3 => ViewState = "Ready" /\ controls_state = "disabled"

\* the third tick of the scenario has run
C10_Witness == pollSeq = 3 /\ op = "_update_progress" /\ controls_state = "disabled"

StartFns == {"start_playback(uris)", "start_playback(context_uri)"}
RestartFns == StartFns \cup {"next_track", "previous_track", "seek_to_position"}
FailedStart(c) == \E i \in 1..Len(c) : c[i][1] \in StartFns /\ ~c[i][4]
Resolves(map, name) == name # "" /\ OGet(map, name) \notin {"", None, Missing}

\* C11: a start-playback call is issued only with a device selected whose
\* name resolves to a non-empty id, on that id and for the URI of the entry;
\* it is single-item playback exactly when the entry is a track, context
\* playback exactly when it is an album, an artist or a playlist.
C11_PlayDispatch ==
    \A i \in 1..Len(calls) :
        calls[i][1] \in StartFns =>
            /\ Resolves(device_map, device_var)
            /\ calls[i][2] = OGet(device_map, device_var)
            /\ selected_name \in DOMAIN track_uris
            /\ calls[i][3] = track_uris[selected_name]
            /\ result_types[selected_name] \in {"track", "album", "artist", "playlist"}
            /\ (calls[i][1] = "start_playback(uris)")
                  <=> (result_types[selected_name] = "track")

\* a playlist was started as a context
C11_Witness ==
    /\ op = "play_selected_track"
    /\ Len(calls) = 1 /\ calls[1][1] = "start_playback(context_uri)" /\ calls[1][4]
    /\ result_types[selected_name] = "playlist"

\* C12: when the start-playback call of a play fails, the playing flag, the
\* state of the transport controls, the poll timer and the track shown are
\* what they were and the error dialog is shown.
C12_PlayFailureLeavesState ==
    [][(op' \in {"play_selected_track", "_toggle_play_pause"} /\ FailedStart(calls'))
        => /\ is_playing' = is_playing
           /\ controls_state' = controls_state
           /\ progress_update_job' = progress_update_job
           /\ progress_orphans' = progress_orphans
           /\ current_track' = current_track
           /\ dialog' = Error("Lecture impossible")]_vars

\* a play failed while a track was playing, with the poll timer pending
C12_Witness ==
    /\ op = "play_selected_track" /\ FailedStart(calls)
    /\ is_playing /\ controls_state = "normal" /\ progress_update_job = "live"
    /\ dialog = Error("Lecture impossible")

\* C13: with a result selected the play/pause button plays that result (the
\* start-playback call of C11 when the selected device resolves, the dialog
\* of play otherwise), reads no active device and calls neither pause nor
\* resume; pause and resume are called only with no result selected.
C13_SelectionTakesPrecedence ==
    /\ (op = "_toggle_play_pause" /\ selected_name # None) =>
          /\ \A i \in 1..Len(fetches) : fetches[i][1] # "lookup"
          /\ IF Resolves(device_map, device_var)
             THEN /\ Len(calls) = 1 /\ calls[1][1] \in StartFns
                  /\ calls[1][3] = track_uris[selected_name]
             ELSE calls = <<>> /\ dialog = Warning("Aucun appareil selectionne")
    /\ \A i \in 1..Len(calls) :
          calls[i][1] \in {"pause_playback", "resume_playback"} =>
              op = "_toggle_play_pause" /\ selected_name = None

\* the button started the selected result
C13_Witness ==
    /\ op = "_toggle_play_pause" /\ selected_name # None
    /\ Len(calls) = 1 /\ calls[1][1] \in StartFns /\ calls[1][4] /\ is_playing

\* the device the play/pause button acts on: the active device the lookup
\* was given, else the id of the selected device, else None
ToggleTarget(lookup, map, name) ==
    IF lookup[3] # None THEN lookup[3]
    ELSE IF Resolves(map, name) THEN OGet(map, name) ELSE None

\* C14: with no result selected the play/pause button calls pause when the
\* flag is set and resume when it is not, on the active device of the
\* snapshot it reads, else on the selected device; the flag flips when the
\* call returns and stays when it fails; with neither device no call is made.
C14_TogglePauseResume ==
    [][(op' = "_toggle_play_pause" /\ selected_name = None)
        => /\ fetches' # <<>> /\ fetches'[1][1] = "lookup"
           /\ IF ToggleTarget(fetches'[1], device_map, device_var) = None
              THEN calls' = <<>> /\ is_playing' = is_playing
              ELSE /\ Len(calls') = 1
                   /\ calls'[1][1] = IF is_playing THEN "pause_playback"
                                     ELSE "resume_playback"
                   /\ calls'[1][2] = ToggleTarget(fetches'[1], device_map, device_var)
                   /\ is_playing' = IF calls'[1][4] THEN ~is_playing ELSE is_playing]_vars

\* the snapshot names no device: the pause went to the selected device
C14_Witness ==
    /\ op = "_toggle_play_pause" /\ selected_name = None
    /\ fetches[1] = <<"lookup", TRUE, None>>
    /\ calls = <<Call("pause_playback", OGet(device_map, device_var), None, TRUE)>>
    /\ ~is_playing

\* C15: after logout the playing flag is false, no track is shown, the
\* transport controls are disabled and no poll timer is pending.
C15_LogoutForcesIdle ==
    op = "disconnect_spotify" =>
        /\ ~is_playing
        /\ current_track = None
        /\ controls_state = "disabled"
        /\ progress_update_job = None /\ progress_orphans = 0

PollFailed == op = "_update_progress" /\ fetches = << <<"poll", FALSE, None>> >>

\* C16: a poll tick whose snapshot fetch fails shows no dialog and leaves no
\* poll timer; a stopped poll loop is started again only by an
\* authentication or by a play, next or previous whose call returned.
C16_PollStopsOnFailure ==
    [][/\ (op' = "_update_progress" /\ fetches' = << <<"poll", FALSE, None>> >>)
           => /\ dialog' = NoDialog
              /\ progress_update_job' = None /\ progress_orphans' = 0
       /\ (progress_update_job = None /\ progress_update_job' # None)
           => \/ op' \in {"_try_auto_authenticate", "authenticate_spotify"}
              \/ /\ op' \in {"play_selected_track", "_toggle_play_pause",
                             "_next_track", "_previous_track"}
                 /\ \E i \in 1..Len(calls') :
                       calls'[i][1] \in RestartFns /\ calls'[i][4]]_vars

\* a poll tick failed with a session
C16_Witness == PollFailed /\ client /\ progress_update_job = None /\ dialog = NoDialog

\* C17: the startup authentication, a debounced search and a poll tick show
\* no dialog.
C17_PassiveFlowsSilent ==
    op \in {"_try_auto_authenticate", "search_tracks(debounced)", "_update_progress"}
        => dialog = NoDialog

\* C18: a command of the user whose snapshot fetch fails, in the lookup of
\* the active device or in "previous", shows an error dialog.
C18_FetchFailureSurfaced ==
    (/\ op \in {"_toggle_play_pause", "_next_track", "_previous_track"}
     /\ \E i \in 1..Len(fetches) :
           fetches[i][1] \in {"lookup", "position"} /\ ~fetches[i][2])
        => dialog.kind = "error"

AuthFailed ==
    \/ ~credentials_are_configured(config)
    \/ fetches # <<>> /\ fetches[1] = <<"current_user", FALSE, None>>

\* C19: a startup authentication that fails (credentials not configured, no
\* usable cache, profile fetch failing) leaves the service without client and
\* the window as constructed, with no dialog; without credentials nothing is
\* read from the Web API.
C19_SilentAuthFailure ==
    (op = "_try_auto_authenticate" /\ AuthFailed) =>
        /\ ~client /\ username = None /\ avatar_url = None
        /\ dialog = NoDialog /\ calls = <<>> /\ Len(fetches) <= 1
        /\ device_map = <<>> /\ device_var = ""
        /\ search_entry_state = "disabled" /\ controls_state = "disabled"
        /\ progress_update_job = None
        /\ ~credentials_are_configured(config) => fetches = <<>>

\* the profile fetch of the startup authentication failed
C19_Witness ==
    /\ op = "_try_auto_authenticate"
    /\ fetches = << <<"current_user", FALSE, None>> >> /\ ~client

\* C20: an interactive authentication that fails, on the credentials or on
\* the service, leaves the user name absent and the avatar as it was,
\* refreshes no device and starts no poll loop; on the credentials nothing is
\* read from the Web API.
C20_FailedLoginStaysReset ==
    [][(op' = "authenticate_spotify"
           /\ \/ ~credentials_are_configured(config)
              \/ fetches' # <<>> /\ fetches'[1] = <<"current_user", FALSE, None>>)
        => /\ username' = None /\ avatar_url' = avatar_url
           /\ Len(fetches') <= 1
           /\ device_map' = device_map /\ device_var' = device_var
           /\ progress_update_job' = progress_update_job
           /\ dialog' = IF credentials_are_configured(config)
                        THEN Error("Erreur d'authentification")
                        ELSE Warning("Identifiants manquants")
           /\ ~credentials_are_configured(config) => fetches' = <<>>]_vars

\* the profile fetch of a login failed
C20_Witness ==
    /\ op = "authenticate_spotify" /\ username = None /\ avatar_url = None
    /\ fetches = << <<"current_user", FALSE, None>> >>
    /\ dialog = Error("Erreur d'authentification")

\* C21: in every reachable state an avatar is present only if a user name
\* is present.
C21_AvatarOnlyWithUsername == avatar_url # None => username # None

SearchReturned == IsSearch(op) /\ SearchCalls # {} /\ \A i \in SearchCalls : calls[i][4]
SearchFailed == IsSearch(op) /\ SearchCalls # {} /\ \A i \in SearchCalls : ~calls[i][4]
HasUri(result) == result.item.uri \notin {"", None, Missing}
ResultsEmpty ==
    /\ track_uris = EmptyDict /\ result_types = EmptyDict /\ image_urls = EmptyDict
    /\ result_items = <<>> /\ selected_name = None

\* the search of a text that is not blank returned: the results stored and
\* shown are the ones of this search, none when it returned none
ReplacedWholesale ==
    SearchReturned =>
        /\ Len(result_items) = Len(SelectSeq(search_results, HasUri))
        /\ DOMAIN track_uris = {result_items[i] : i \in 1..Len(result_items)}
        /\ selected_name = None
        /\ search_results = <<>> => ResultsEmpty

\* C22: the results are replaced as a whole by every search that returned,
\* and are empty after logout and after a search of an empty query, manual
\* or debounced.
C22_ResultsReplacedOrCleared ==
    /\ ReplacedWholesale
    /\ op = "disconnect_spotify" => ResultsEmpty
    /\ (IsSearch(op) /\ (search_placeholder_active \/ Strip(search_text) = <<>>))
           => ResultsEmpty

\* C23: when the search call fails the results stored and shown are as
\* before, and the error dialog is shown for a manual search and no dialog
\* for a debounced one.
C23_SearchFailureKeepsResults ==
    [][(IsSearch(op') /\ calls' = <<Call("search", None, None, FALSE)>>)
        => /\ track_uris' = track_uris /\ result_types' = result_types
           /\ image_urls' = image_urls
           /\ result_items' = result_items /\ selected_name' = selected_name
           /\ dialog' = IF op' = "search_tracks(manual)"
                        THEN Error("Erreur de recherche") ELSE NoDialog]_vars

\* a debounced search failed with results on show
C23_Witness ==
    /\ op = "search_tracks(debounced)" /\ SearchFailed
    /\ result_items # <<>> /\ dialog = NoDialog

OrPlaceholder(field, placeholder) == IF field = Missing THEN placeholder ELSE field
FirstArtistName(item) == IF Len(item.artists) = 0 THEN Missing ELSE item.artists[1]
Template(result) ==
    LET item == result.item
        name == OrPlaceholder(item.name, "Sans titre")
    IN  IF result.result_type \in {"track", "album"}
        THEN name \o " - " \o OrPlaceholder(FirstArtistName(item), "Artiste inconnu")
        ELSE IF result.result_type = "artist"
        THEN OrPlaceholder(item.name, "Artiste inconnu")
        ELSE name \o " - " \o OrPlaceholder(item.owner, "Utilisateur inconnu")

C25_Debounce ==
    /\ search_orphans = 0
    /\ (op = "_on_search_var_changed" /\ ~search_placeholder_active /\ username # None)
           => search_after_id = "live"
    /\ IsSearch(op) => search_after_id = None

\* the user typed again after a search had shown results: one timer pending
C25_Witness ==
    /\ op = "_on_search_var_changed" /\ search_after_id = "live"
    /\ result_items # <<>> /\ search_text # <<"q">>

\* C26: at most one poll timer and at most one debounce timer are pending,
\* no timer is ever left behind by a rescheduling, and after logout none is
\* pending.
C26_OneTimerEach ==
    /\ progress_orphans = 0 /\ search_orphans = 0
    /\ op = "disconnect_spotify" => (progress_update_job = None /\ search_after_id = None)

\* a track was started while the poll loop was running: one poll timer
C26_Witness ==
    /\ op = "play_selected_track"
    /\ \E i \in 1..Len(calls) : calls[i][1] \in StartFns /\ calls[i][4]
    /\ progress_update_job = "live" /\ progress_orphans = 0

\* C27: whenever a poll tick with a current item has set the progress bar,
\* the percentage shown lies between 0 and 100.
C27_ProgressWithinRange == progress_value # -1 => progress_value \in 0..100

\* C28: in every state between handlers the service has a client exactly
\* when the application state has a user name.
C28_AuthNotionsAgree == client <=> username # None

RefreshFailed == op = "refresh_devices" /\ fetches = <<<<"list_devices", FALSE, None>>>>

\* C29: the selected device name is empty or a key of the device map in
\* every reachable state, and a refresh that failed leaves the device map and
\* the selection as they were.
C29_SelectionInMap ==
    /\ [](device_var = "" \/ device_var \in OKeys(device_map))
    /\ [][RefreshFailed' => (device_map' = device_map /\ device_var' = device_var)]_vars

\* a refresh failed with a device selected
C29_Witness == RefreshFailed /\ device_var # "" /\ dialog.kind = "error"

\* C30: the transport controls are enabled only while a session is
\* authenticated, a poll timer is pending only while a session is
\* authenticated, and after logout no timer is left that could enable the
\* controls or fetch a snapshot.
C30_ControlsAndPollNeedSession ==
    /\ controls_state = "normal" => username # None
    /\ progress_update_job = "live" => username # None
    /\ op = "disconnect_spotify" =>
           (progress_update_job = None /\ progress_orphans = 0
            /\ controls_state = "disabled")

====
